---- MODULE Spec2Model ----
(***************************************************************************)
(* Model of veg_survey (src/main.py): the Survey registry with its         *)
(* phenology numbering, and the Summary sheet built by main().             *)
(*                                                                         *)
(* Site names and species names are modelled by their rank in Python's     *)
(* string order (1 < 2 < ...), dates by integers (datetime order).         *)
(* A Survey object is identified by its position in Survey.all_surveys.    *)
(* A worksheet is the set of its non-empty cells: a function from          *)
(* <<row, column>> to the value written there.                             *)
(***************************************************************************)
EXTENDS Integers, Sequences, FiniteSets, TLC

\* ---- bounds of the model ----
MaxSheets == 3
NumSites  == 2
MaxDate   == 3

\* ---- program constants ----
VARIABLE_LIST == <<"DNF", "DF", "FU">>
NUM_PHENOLOGIES == 2

\* Python's None as read from an empty cell (measurements are >= 0).
None == -1

Sites == 1..NumSites
Dates == 1..MaxDate

\* Raw data rows (name, dnf, df, fu) below the headers of the sheet for a
\* site and date.  Every sheet holds its own measurements; a sheet either
\* has species 1 and 2 with some empty cells, or names species 1 in two
\* rows and also has species 3.
SheetRows(site, date) ==
  LET v == 100 * site + 10 * date
  IN  IF (site + date) % 2 = 0
      THEN << <<1, None, v + 2, v + 3>>, <<2, v + 4, None, v + 5>> >>
      ELSE << <<1, v + 1, v + 2, None>>, <<1, v + 4, v + 5, v + 6>>,
              <<3, v + 7, None, v + 8>> >>

\* The sheets of the workbook: B2 = site, D2 = date, rows 4.. = species.
Sheets == {[site |-> s, date |-> d, rows |-> SheetRows(s, d)] : s \in Sites, d \in Dates}

VARIABLES all_surveys, survey_dates, all_sites, all_species, species_ids,
          sum_ws, pc

vars == <<all_surveys, survey_dates, all_sites, all_species, species_ids,
          sum_ws, pc>>

\* ---------------------------------------------------------------------
\* Python built-ins used by the program
\* ---------------------------------------------------------------------

\* bisect.bisect_right(a, x, lo, hi) with 0-based lo/hi; a need not be sorted.
RECURSIVE bisect_right(_, _, _, _)
bisect_right(a, x, lo, hi) ==
  IF lo < hi
  THEN LET mid == (lo + hi) \div 2
       IN  IF x < a[mid + 1]
           THEN bisect_right(a, x, lo, mid)
           ELSE bisect_right(a, x, mid + 1, hi)
  ELSE lo

\* bisect.insort(a, x): insert x at bisect_right's position.
insort(a, x) ==
  LET lo == bisect_right(a, x, 0, Len(a))
  IN  SubSeq(a, 1, lo) \o <<x>> \o SubSeq(a, lo + 1, Len(a))

\* list.index(x): 0-based position of the first element equal to x.
index(a, x) ==
  (CHOOSE i \in 1..Len(a) : a[i] = x /\ \A j \in 1..(i - 1) : a[j] # x) - 1

\* list * k
RECURSIVE Repeat(_, _)
Repeat(s, k) == IF k <= 0 THEN <<>> ELSE s \o Repeat(s, k - 1)

\* Python's order on the variable names: "DF" < "DNF" < "FU".
StrRank == [v \in {"DF", "DNF", "FU"} |-> CASE v = "DF" -> 1 [] v = "DNF" -> 2 [] v = "FU" -> 3]

IntRank == [v \in Int |-> v]

\* The elements of s whose rank is in keys, ascending by rank, elements of
\* equal rank in their order in s.
RECURSIVE SortedByKeys(_, _, _)
SortedByKeys(s, rank, keys) ==
  IF keys = {} THEN <<>>
  ELSE LET m == CHOOSE k \in keys : \A l \in keys : k <= l
       IN  SelectSeq(s, LAMBDA x : rank[x] = m) \o SortedByKeys(s, rank, keys \ {m})

\* sorted(s): stable ascending sort, the elements' order given by rank.
Sorted(s, rank) == SortedByKeys(s, rank, {rank[s[i]] : i \in 1..Len(s)})

\* sorted(set(s)) for a list of integers.
RECURSIVE SortedOfSet(_)
SortedOfSet(S) ==
  IF S = {} THEN <<>>
  ELSE LET m == CHOOSE x \in S : \A y \in S : x <= y
       IN  <<m>> \o SortedOfSet(S \ {m})

SortedSet(s) == SortedOfSet({s[i] : i \in 1..Len(s)})

\* ---------------------------------------------------------------------
\* class Species
\* ---------------------------------------------------------------------
Species(name, non_flowering_density, flowering_density, flowering_units) ==
  [id  |-> name,
   dnf |-> IF non_flowering_density = None THEN 0 ELSE non_flowering_density,
   df  |-> IF flowering_density = None THEN 0 ELSE flowering_density,
   fu  |-> IF flowering_units = None THEN 0 ELSE flowering_units]

get_survey_species(sheet) ==
  [i \in 1..Len(sheet.rows) |->
     Species(sheet.rows[i][1], sheet.rows[i][2], sheet.rows[i][3], sheet.rows[i][4])]

\* ---------------------------------------------------------------------
\* class Survey
\* ---------------------------------------------------------------------
get_dates_site_surveyed(surveys, survey) ==
  LET same == SelectSeq(surveys, LAMBDA other_survey : survey.site = other_survey.site)
  IN  [i \in 1..Len(same) |-> same[i].date]

get_other_surveys_from_site_any(surveys, survey) ==
  1..Len(surveys)

get_other_surveys_from_site(surveys, survey) ==
  {i \in 1..Len(surveys) : survey.site = surveys[i].site}

surveys_before(surveys, other_surveys, survey) ==
  {i \in other_surveys : surveys[i].date < survey.date}

surveys_after_none(surveys, other_surveys, survey) ==
  {}

surveys_after(surveys, other_surveys, survey) ==
  {i \in other_surveys : surveys[i].date > survey.date}

add_survey_date_always(dates, date) ==
  insort(dates, date)

\* if survey.date not in cls.survey_dates: bisect.insort(...)
add_survey_date(dates, date) ==
  IF \E i \in 1..Len(dates) : dates[i] = date
  THEN dates
  ELSE insort(dates, date)

\* Survey._calc_num_phenologies: the phen_num given to the new survey and
\* the already-registered surveys with their phen_num updated.
calc_num_phenologies(surveys, survey) ==
  LET other_surveys  == get_other_surveys_from_site(surveys, survey)
      dates_surveyed == insort(get_dates_site_surveyed(surveys, survey), survey.date)
      before == surveys_before(surveys, other_surveys, survey)
      after  == surveys_after(surveys, other_surveys, survey)
  IN  [phen_num |-> index(dates_surveyed, survey.date) + 1,
       others   |-> [i \in 1..Len(surveys) |->
                       IF i \in before
                       THEN [surveys[i] EXCEPT !.phen_num = @ - 1]
                       ELSE IF i \in after
                       THEN [surveys[i] EXCEPT !.phen_num = @ + 1]
                       ELSE surveys[i]]]

\* Survey.__init__: number the survey, then append it to all_surveys.
SurveyInit(surveys, site, date, species_comp) ==
  LET self == [site |-> site, date |-> date, species |-> species_comp]
      calc == calc_num_phenologies(surveys, self)
  IN  Append(calc.others,
             [site |-> site, date |-> date, species |-> species_comp,
              phen_num |-> calc.phen_num])

\* ---------------------------------------------------------------------
\* Summary sheet
\* ---------------------------------------------------------------------
\* cells written over a worksheet
SetCells(ws, new) == new @@ ws

HasValue(ws, r, c) == <<r, c>> \in DOMAIN ws

write_summary_headers(ws, species) ==
  SetCells(ws, [cell \in {1} \X (1..(Len(species) + 3)) |->
                  CASE cell[2] = 1 -> "Site"
                    [] cell[2] = 2 -> "Variable"
                    [] cell[2] = 3 -> "Phenology"
                    [] OTHER -> species[cell[2] - 3]])

\* column A: the site list repeated len(VARIABLE_LIST) * NUM_PHENOLOGIES times
name_copy(site_names) == Repeat(site_names, Len(VARIABLE_LIST) * NUM_PHENOLOGIES)

write_sites_to_rows(ws, site_names) ==
  LET names == name_copy(site_names)
  IN  SetCells(ws, [cell \in (2..(Len(names) + 1)) \X {1} |-> names[cell[1] - 1]])

\* column B
variables(num_sites) ==
  Sorted(Repeat(Repeat(VARIABLE_LIST, num_sites), NUM_PHENOLOGIES), StrRank)

write_variables_to_rows(ws, num_sites) ==
  LET vs == variables(num_sites)
  IN  SetCells(ws, [cell \in (2..(Len(vs) + 1)) \X {2} |-> vs[cell[1] - 1]])

\* range(1, NUM_PHENOLOGIES + 1)
PhenRange == [i \in 1..NUM_PHENOLOGIES |-> i]

phenology_list_unsorted(num_sites) ==
  Repeat(Repeat(PhenRange, num_sites), Len(VARIABLE_LIST))

\* column C
phenology_list(num_sites) ==
  Repeat(Sorted(Repeat(PhenRange, num_sites), IntRank), Len(VARIABLE_LIST))

write_phenology_to_rows(ws, num_sites) ==
  LET ps == phenology_list(num_sites)
  IN  SetCells(ws, [cell \in (2..(Len(ps) + 1)) \X {3} |-> ps[cell[1] - 1]])

datum_swapped(species_obj, variable) ==
  CASE variable = "DNF" -> species_obj.df
    [] variable = "DF"  -> species_obj.dnf
    [] variable = "FU"  -> species_obj.fu
    [] OTHER -> None

\* the if/elif chain on `variable`
datum(species_obj, variable) ==
  CASE variable = "DNF" -> species_obj.dnf
    [] variable = "DF"  -> species_obj.df
    [] variable = "FU"  -> species_obj.fu
    [] OTHER -> None

\* surveys matching the (site, phenology) read back from row r
row_surveys(ws, survey_list, r) ==
  {i \in 1..Len(survey_list) :
     /\ HasValue(ws, r, 1) /\ HasValue(ws, r, 3)
     /\ survey_list[i].site = ws[<<r, 1>>]
     /\ survey_list[i].phen_num = ws[<<r, 3>>]}

species_objs(survey, species_name) ==
  {k \in 1..Len(survey.species) : survey.species[k].id = species_name}

\* value written to the cell of row r for species_name, or None for no write
cell_datum(ws, survey_list, r, species_name) ==
  LET survey == row_surveys(ws, survey_list, r)
  IN  IF Cardinality(survey) = 1
      THEN LET sv  == survey_list[CHOOSE i \in survey : TRUE]
               obj == species_objs(sv, species_name)
           IN  IF Cardinality(obj) = 1 /\ HasValue(ws, r, 2)
               THEN datum(sv.species[CHOOSE k \in obj : TRUE], ws[<<r, 2>>])
               ELSE None
      ELSE None

write_data_to_rows(ws, survey_list, num_sites, species_list) ==
  LET num_rows == num_sites * NUM_PHENOLOGIES * Len(VARIABLE_LIST)
      written  == {cell \in (2..(num_rows + 1)) \X (4..(Len(species_list) + 3)) :
                     cell_datum(ws, survey_list, cell[1], species_list[cell[2] - 3]) # None}
  IN  SetCells(ws, [cell \in written |->
                      cell_datum(ws, survey_list, cell[1], species_list[cell[2] - 3])])

\* ---------------------------------------------------------------------
\* main()
\* ---------------------------------------------------------------------
Init ==
  /\ all_surveys = <<>>
  /\ survey_dates = <<>>
  /\ all_sites = <<>>
  /\ all_species = <<>>
  /\ species_ids = <<>>
  /\ sum_ws = <<>>
  /\ pc = "ingest"

\* one iteration of `for sheet in wb`
Ingest(sheet) ==
  /\ pc = "ingest"
  /\ Len(all_surveys) < MaxSheets
  /\ LET species_comp == get_survey_species(sheet)
     IN  /\ all_sites' = Append(all_sites, sheet.site)
         /\ all_species' = all_species \o species_comp
         /\ all_surveys' = SurveyInit(all_surveys, sheet.site, sheet.date, species_comp)
         /\ survey_dates' = add_survey_date(survey_dates, sheet.date)
  /\ UNCHANGED <<species_ids, sum_ws, pc>>

\* end of the loop: species_ids, all_sites, create_sheet, write_summary_headers
BeginSummary ==
  /\ pc = "ingest"
  /\ species_ids' = SortedSet([i \in 1..Len(all_species) |-> all_species[i].id])
  /\ all_sites' = SortedSet(all_sites)
  /\ sum_ws' = write_summary_headers(<<>>, species_ids')
  /\ pc' = "sites"
  /\ UNCHANGED <<all_surveys, survey_dates, all_species>>

WriteSites ==
  /\ pc = "sites"
  /\ sum_ws' = write_sites_to_rows(sum_ws, all_sites)
  /\ pc' = "variables"
  /\ UNCHANGED <<all_surveys, survey_dates, all_sites, all_species, species_ids>>

WriteVariables ==
  /\ pc = "variables"
  /\ sum_ws' = write_variables_to_rows(sum_ws, Len(all_sites))
  /\ pc' = "phenology"
  /\ UNCHANGED <<all_surveys, survey_dates, all_sites, all_species, species_ids>>

WritePhenology ==
  /\ pc = "phenology"
  /\ sum_ws' = write_phenology_to_rows(sum_ws, Len(all_sites))
  /\ pc' = "data"
  /\ UNCHANGED <<all_surveys, survey_dates, all_sites, all_species, species_ids>>

WriteData ==
  /\ pc = "data"
  /\ sum_ws' = write_data_to_rows(sum_ws, all_surveys, Len(all_sites), species_ids)
  /\ pc' = "done"
  /\ UNCHANGED <<all_surveys, survey_dates, all_sites, all_species, species_ids>>

Next ==
  \/ \E sheet \in Sheets : Ingest(sheet)
  \/ BeginSummary
  \/ WriteSites
  \/ WriteVariables
  \/ WritePhenology
  \/ WriteData

Spec == Init /\ [][Next]_vars

TypeOK ==
  /\ pc \in {"ingest", "sites", "variables", "phenology", "data", "done"}
  /\ Len(all_surveys) <= MaxSheets

\* ---------------------------------------------------------------------
\* Properties
\* ---------------------------------------------------------------------
SiteSurveys(site) == {i \in 1..Len(all_surveys) : all_surveys[i].site = site}

PhenNums(site) == {all_surveys[i].phen_num : i \in SiteSurveys(site)}

\* i comes before j by date ascending, ties broken by registration order
Precedes(i, j) ==
  \/ all_surveys[i].date < all_surveys[j].date
  \/ (all_surveys[i].date = all_surveys[j].date /\ i < j)

\* a registration step, and the survey it registered
Registered == Len(all_surveys') = Len(all_surveys) + 1

NewSurvey == all_surveys'[Len(all_surveys')]

\* C1: for every site with N registered surveys the set of phen_num values
\* of that site's surveys is exactly {1, ..., N}.
C1_IndexDensity ==
  \A site \in Sites : PhenNums(site) = 1..Cardinality(SiteSurveys(site))

\* C2: ordering a site's surveys by phen_num ascending (surveys with equal
\* phen_num kept in registration order, as a stable sort does) gives the
\* order by date ascending with ties broken by registration order.
C2_PhenOrderIsDateOrder ==
  \A site \in Sites : \A i, j \in SiteSurveys(site) :
     (i # j /\ Precedes(i, j)) =>
        \/ all_surveys[i].phen_num < all_surveys[j].phen_num
        \/ (all_surveys[i].phen_num = all_surveys[j].phen_num /\ i < j)

\* C3: no two surveys of the same site have the same phen_num; of two
\* same-site surveys with equal dates the earlier registered has the lower.
C3_DistinctIndices ==
  \A site \in Sites : \A i, j \in SiteSurveys(site) :
     /\ (i # j => all_surveys[i].phen_num # all_surveys[j].phen_num)
     /\ (i < j /\ all_surveys[i].date = all_surveys[j].date
           => all_surveys[i].phen_num < all_surveys[j].phen_num)

\* C4: registering a survey for site A leaves the phen_num of every
\* already-registered survey of another site unchanged.
C4_CrossSiteFrame ==
  [][Registered =>
       \A i \in 1..Len(all_surveys) :
          all_surveys[i].site # NewSurvey.site
             => all_surveys'[i].phen_num = all_surveys[i].phen_num]_vars

C4_Witness ==
  /\ Len(all_surveys) >= 2
  /\ \E i \in 1..(Len(all_surveys) - 1) :
        /\ all_surveys[i].site # all_surveys[Len(all_surveys)].site
        /\ all_surveys[i].date > all_surveys[Len(all_surveys)].date

\* The body row of the Summary sheet holding (site, variable, phenology).
BodyRows == 2..(Len(all_sites) * Len(VARIABLE_LIST) * NUM_PHENOLOGIES + 1)

RowsOf(site, variable, phenology) ==
  {r \in BodyRows :
     /\ HasValue(sum_ws, r, 1) /\ sum_ws[<<r, 1>>] = site
     /\ HasValue(sum_ws, r, 2) /\ sum_ws[<<r, 2>>] = variable
     /\ HasValue(sum_ws, r, 3) /\ sum_ws[<<r, 3>>] = phenology}

VariableSet == {VARIABLE_LIST[i] : i \in 1..Len(VARIABLE_LIST)}

\* the field of a Species record the variable names
Field(species_obj, variable) ==
  IF variable = "DNF" THEN species_obj.dnf
  ELSE IF variable = "DF" THEN species_obj.df
  ELSE species_obj.fu

\* surveys registered with this site and phen_num; records named Y in one
SurveysAt(site, phenology) ==
  {i \in SiteSurveys(site) : all_surveys[i].phen_num = phenology}

RecordsNamed(i, name) ==
  {k \in 1..Len(all_surveys[i].species) : all_surveys[i].species[k].id = name}

\* the cell (row r, species column c) is what the claim says for (X, V, p)
CellAsClaimed(r, c, site, variable, phenology) ==
  LET name == sum_ws[<<1, c>>]
      svs  == SurveysAt(site, phenology)
  IN  IF Cardinality(svs) = 1
         /\ Cardinality(RecordsNamed(CHOOSE i \in svs : TRUE, name)) = 1
      THEN LET i == CHOOSE i \in svs : TRUE
               k == CHOOSE k \in RecordsNamed(i, name) : TRUE
           IN  /\ HasValue(sum_ws, r, c)
               /\ sum_ws[<<r, c>>] = Field(all_surveys[i].species[k], variable)
      ELSE ~HasValue(sum_ws, r, c)

\* C5: after write_data_to_rows, for every body row (site X, variable V,
\* phenology p) and species column Y the cell equals the V-selected field of
\* the record named Y in the unique survey with site X and phen_num p, and
\* is blank when there is not exactly one such survey or record.
C5_FillCorrect ==
  pc = "done" =>
    \A r \in BodyRows : \A c \in 4..(Len(species_ids) + 3) :
       /\ HasValue(sum_ws, r, 1) /\ HasValue(sum_ws, r, 2) /\ HasValue(sum_ws, r, 3)
       /\ HasValue(sum_ws, 1, c)
       /\ CellAsClaimed(r, c, sum_ws[<<r, 1>>], sum_ws[<<r, 2>>], sum_ws[<<r, 3>>])

\* a filled cell with a non-zero measurement, a cell blank because two
\* surveys share the (site, phenology), and one blank because a survey holds
\* two records of the species
C5_Witness ==
  /\ pc = "done"
  /\ \E r \in BodyRows : \E c \in 4..(Len(species_ids) + 3) :
        HasValue(sum_ws, r, c) /\ sum_ws[<<r, c>>] > 0
  /\ \E r \in BodyRows :
        /\ Cardinality(SurveysAt(sum_ws[<<r, 1>>], sum_ws[<<r, 3>>])) > 1
        /\ \A c \in 4..(Len(species_ids) + 3) : ~HasValue(sum_ws, r, c)
  /\ \E r \in BodyRows : \E c \in 4..(Len(species_ids) + 3) :
        LET svs == SurveysAt(sum_ws[<<r, 1>>], sum_ws[<<r, 3>>])
        IN  /\ Cardinality(svs) = 1
            /\ Cardinality(RecordsNamed(CHOOSE i \in svs : TRUE, sum_ws[<<1, c>>])) > 1
            /\ ~HasValue(sum_ws, r, c)

\* C6: the three axis columns each have length n * 3 * 2 and every
\* combination (site, variable, phenology in 1..2) occurs in exactly one
\* body row; no row below the body holds an axis value.
C6_AxisColumns ==
  pc \in {"data", "done"} =>
    LET n == Len(all_sites)
        distinct == {all_surveys[i].site : i \in 1..Len(all_surveys)}
    IN  /\ n = Cardinality(distinct)
        /\ Len(name_copy(all_sites)) = n * 3 * 2
        /\ Len(variables(n)) = n * 3 * 2
        /\ Len(phenology_list(n)) = n * 3 * 2
        /\ \A site \in distinct : \A v \in {"DNF", "DF", "FU"} : \A p \in 1..2 :
              Cardinality(RowsOf(site, v, p)) = 1
        /\ \A cell \in DOMAIN sum_ws :
              cell[2] \in 1..3 => cell[1] \in 1..(n * 3 * 2 + 1)

C6_Witness ==
  /\ pc = "done"
  /\ Len(all_sites) >= 2
  /\ Len(all_surveys) > Len(all_sites)

\* C7: from an empty registry, registering a later-dated survey and then a
\* strictly earlier-dated one for the same site ends with the earlier-dated
\* survey at phen_num 1 and the later-dated one at phen_num 2.
C7_ReverseOrder ==
  (/\ Len(all_surveys) = 2
   /\ all_surveys[1].site = all_surveys[2].site
   /\ all_surveys[1].date > all_surveys[2].date)
     => (all_surveys[2].phen_num = 1 /\ all_surveys[1].phen_num = 2)

C7_Witness ==
  /\ Len(all_surveys) = 2
  /\ all_surveys[1].site = all_surveys[2].site
  /\ all_surveys[1].date > all_surveys[2].date
  /\ all_surveys[2].phen_num = 1

\* C8: a registration increments by exactly 1 the phen_num of each
\* same-site survey dated strictly after the new one, and leaves unchanged
\* each same-site survey dated strictly before or exactly at the new date.
C8_ShiftOnlyLater ==
  [][Registered =>
       \A i \in 1..Len(all_surveys) :
          all_surveys[i].site = NewSurvey.site =>
             all_surveys'[i].phen_num =
                IF all_surveys[i].date > NewSurvey.date
                THEN all_surveys[i].phen_num + 1
                ELSE all_surveys[i].phen_num]_vars

\* C9: at registration the new survey's phen_num is 1 + the number of
\* already-registered same-site surveys dated strictly before it.
C9_NewIndex ==
  [][Registered =>
       NewSurvey.phen_num =
          1 + Cardinality({i \in 1..Len(all_surveys) :
                             /\ all_surveys[i].site = NewSurvey.site
                             /\ all_surveys[i].date < NewSurvey.date})]_vars

\* C10: Survey.survey_dates is strictly ascending and its elements are
\* exactly the dates of the surveys registered so far.
C10_SurveyDates ==
  /\ \A i \in 1..(Len(survey_dates) - 1) : survey_dates[i] < survey_dates[i + 1]
  /\ {survey_dates[i] : i \in 1..Len(survey_dates)}
        = {all_surveys[i].date : i \in 1..Len(all_surveys)}

\* a date registered twice, and a later date registered before an earlier
C10_Witness ==
  /\ Len(survey_dates) >= 2
  /\ Len(all_surveys) > Len(survey_dates)
  /\ \E i, j \in 1..Len(all_surveys) :
        i < j /\ all_surveys[i].date > all_surveys[j].date
====
